---- MODULE Spec2Model ----
(***************************************************************************)
(* SPIMI indexer (indexer.py, merge_utils.py), lexicon builder             *)
(* (build_lexicon.py) and AND-only ranked search (search.py).              *)
(*                                                                         *)
(* A term is a string; it is modelled as a sequence of character codes and *)
(* compared lexicographically, as Python compares str.  A posting is the   *)
(* 5-tuple <<doc_id, tf, title_tf, header_tf, bold_tf>>.  A Python dict is  *)
(* a function whose DOMAIN is its key set.                                 *)
(***************************************************************************)
EXTENDS Integers, Sequences, FiniteSets, TLC

VARIABLES
    pc,               \* position of the pipeline
    flush_docs,       \* args.flush_docs
    dirs_made,        \* ensure_dir(args.out), ensure_dir(partial_dir) have run
    partial_dir,      \* the partials directory: file number -> partial file
    corpus,           \* the documents iter_json_docs has yielded so far
    partial_index,    \* the in-memory accumulator: term -> list of postings
    doc_count,
    partial_count,
    partial_paths,    \* the sorted file numbers handed to merge_partials
    iters,            \* per source: how many records its iterator has yielded
    heap,
    current_term,
    current_postings,
    out,              \* index_final.jsonl, as the sequence of cells written
    unique_terms,
    lexicon_file,     \* lexicon.tsv: rows <<term, offset, df>>
    query,            \* the tokenized query of the last search_and call
    topk,
    rank,
    dfs_sorted,       \* search_and's dfs_sorted of the last ranked call
    doc_to_postings,  \* search_and's doc_to_postings of the last call
    posting_terms,    \* for each position of an accumulated list, its query term
    results           \* what the last search_and call returned

vars == <<pc, flush_docs, dirs_made, partial_dir, corpus, partial_index,
          doc_count, partial_count, partial_paths, iters, heap, current_term,
          current_postings, out, unique_terms, lexicon_file, query, topk, rank,
          dfs_sorted, doc_to_postings, posting_terms, results>>

(***************************************************************************)
(* Bounds of the model.                                                    *)
(***************************************************************************)
MaxDocs == 3
MaxFlush == 2
MaxPrevDocs == 2
MaxQueryLen == 2
MaxTopK == 2
MaxBoost == 2

(***************************************************************************)
(* Terms and documents.                                                    *)
(***************************************************************************)
Vocab == {<<1>>, <<1, 2>>, <<2>>}

None == <<>>        \* Python's None for current_term: no term is empty

\* Python's str comparison s < t: lexicographic on code points.
LexLess(s, t) ==
    \E k \in 0..Len(s) :
        /\ k <= Len(t)
        /\ \A j \in 1..k : s[j] = t[j]
        /\ \/ k = Len(s) /\ Len(t) > k
           \/ k < Len(s) /\ k < Len(t) /\ s[k + 1] < t[k + 1]

MinTerm(S) == CHOOSE t \in S : \A u \in S \ {t} : LexLess(t, u)

RECURSIVE sorted(_)
\* sorted(index.keys()) of a set of terms.
sorted(S) == IF S = {} THEN <<>> ELSE <<MinTerm(S)>> \o sorted(S \ {MinTerm(S)})

\* A document after zone extraction and tokenization: one token list per zone.
Doc(t, h, b, y) == [title |-> t, headers |-> h, bold |-> b, body |-> y]

DocPool ==
    { Doc(<<<<1>>, <<1, 2>>>>, <<>>, <<>>, <<<<1>>, <<1, 2>>, <<1>>>>),
      Doc(<<>>, <<>>, <<>>, <<<<1, 2>>>>),
      Doc(<<<<2>>>>, <<<<1>>>>, <<<<2>>>>, <<<<2>>, <<1>>>>),
      Doc(<<>>, <<>>, <<>>, <<>>) }

\* Counter(tokens).get(t, 0)
Counter(tokens, t) == Cardinality({i \in 1..Len(tokens) : tokens[i] = t})

Range(s) == {s[i] : i \in 1..Len(s)}

DocTerms(zoned) ==
    Range(zoned.title) \cup Range(zoned.headers) \cup Range(zoned.bold)
        \cup Range(zoned.body)

build_partial_index_for_doc(doc_id, zoned) ==
    [t \in DocTerms(zoned) |->
        LET title_tf == Counter(zoned.title, t)
            header_tf == Counter(zoned.headers, t)
            bold_tf == Counter(zoned.bold, t)
            body_tf == Counter(zoned.body, t)
            tf == title_tf + header_tf + bold_tf + body_tf
        IN  <<doc_id, tf, title_tf, header_tf, bold_tf>>]

EmptyIndex == [t \in {} |-> <<>>]

\* for term, posting in per_doc.items(): partial_index[term].append(posting)
AppendPostings(index, per_doc) ==
    [t \in DOMAIN index \cup DOMAIN per_doc |->
        IF t \in DOMAIN per_doc
        THEN (IF t \in DOMAIN index THEN index[t] ELSE <<>>) \o <<per_doc[t]>>
        ELSE index[t]]

\* The records of a partial file: [term, postings], terms in sorted order.
dump_partial_index(index) ==
    LET ts == sorted(DOMAIN index)
    IN  [i \in 1..Len(ts) |-> [term |-> ts[i], postings |-> index[ts[i]]]]

\* Python's a % b for b # 0: the result has the sign of b.
PyMod(a, b) == IF b > 0 THEN a % b ELSE -((-a) % (-b))

(***************************************************************************)
(* merge_utils.py: the k-way merge.                                        *)
(***************************************************************************)
DocIds(postings) == {postings[i][1] : i \in 1..Len(postings)}

RECURSIVE SortedInts(_)
\* sorted(by.keys()) of a set of doc ids.
SortedInts(S) ==
    IF S = {} THEN <<>>
    ELSE LET m == CHOOSE x \in S : \A y \in S : x <= y
         IN  <<m>> \o SortedInts(S \ {m})

\* for p in a: by[p[0]] = p
ByDocId(a) ==
    [d \in DocIds(a) |->
        a[CHOOSE i \in 1..Len(a) :
            a[i][1] = d /\ \A j \in (i + 1)..Len(a) : a[j][1] # d]]

SumPostings(pa, p) ==
    <<p[1], pa[2] + p[2], pa[3] + p[3], pa[4] + p[4], pa[5] + p[5]>>

RECURSIVE AddPostings(_, _, _)
\* for p in b: sum into by[doc_id] when present, else insert
AddPostings(by, b, k) ==
    IF k > Len(b) THEN by
    ELSE LET p == b[k]
             doc_id == p[1]
             by1 == [d \in DOMAIN by \cup {doc_id} |->
                        IF d = doc_id
                        THEN (IF doc_id \in DOMAIN by
                              THEN SumPostings(by[doc_id], p) ELSE p)
                        ELSE by[d]]
         IN  AddPostings(by1, b, k + 1)

\* merge_postings without its else branch: doc_ids new in b are lost.
merge_postings_known_only(a, b) ==
    LET by == AddPostings(ByDocId(a), SelectSeq(b, LAMBDA p : p[1] \in DocIds(a)), 1)
        ks == SortedInts(DOMAIN by)
    IN  [i \in 1..Len(ks) |-> by[ks[i]]]

\* merge_postings that appends b to a instead of summing equal doc_ids.
merge_postings_append(a, b) == a \o b

\* merge_postings where a posting of b replaces a's instead of being summed.
merge_postings_overwrite(a, b) ==
    LET by == ByDocId(a \o b)
        ks == SortedInts(DOMAIN by)
    IN  [i \in 1..Len(ks) |-> by[ks[i]]]

merge_postings(a, b) ==
    LET by == AddPostings(ByDocId(a), b, 1)
        ks == SortedInts(DOMAIN by)
    IN  [i \in 1..Len(ks) |-> by[ks[i]]]

\* One cell of index_final.jsonl.  A record {"term", "df", "postings"} and its
\* newline occupy 3 + len(postings) cells, so offsets depend on what precedes.
Cell(k, v) == [k |-> k, v |-> v]

EncodeRecord(term, df, postings) ==
    <<Cell("term", term), Cell("df", <<df>>)>>
        \o [i \in 1..Len(postings) |-> Cell("p", postings[i])]
        \o <<Cell("nl", <<>>)>>

\* Tuple order of heap entries (term, i, postings): by term, then by i.
EntryLess(e, f) == LexLess(e[1], f[1]) \/ (e[1] = f[1] /\ e[2] < f[2])

\* A plain queue in place of the heap: the oldest entry is popped.
HeapFirstIndex(h) == 1

\* The position in the heap list of the entry heappop returns.
HeapMinIndex(h) ==
    CHOOSE k \in 1..Len(h) :
        \A j \in 1..Len(h) :
            j # k => (EntryLess(h[k], h[j]) \/ (~EntryLess(h[j], h[k]) /\ k < j))

RemoveAt(s, k) == SubSeq(s, 1, k - 1) \o SubSeq(s, k + 1, Len(s))

\* A reader that prefetches: it pushes the next record of source i and the one
\* after it.
PullNextPrefetch(files, its, h, i) ==
    IF its[i] + 1 < Len(files[i + 1])
    THEN LET r == files[i + 1][its[i] + 1]
             r2 == files[i + 1][its[i] + 2]
         IN  [iters |-> [its EXCEPT ![i] = @ + 2],
              heap |-> h \o <<<<r.term, i, r.postings>>, <<r2.term, i, r2.postings>>>>]
    ELSE IF its[i] < Len(files[i + 1])
    THEN LET r == files[i + 1][its[i] + 1]
         IN  [iters |-> [its EXCEPT ![i] = @ + 1],
              heap |-> Append(h, <<r.term, i, r.postings>>)]
    ELSE [iters |-> its, heap |-> h]

\* next(iters[i]) followed by heappush, or StopIteration: pass.
PullNext(files, its, h, i) ==
    IF its[i] < Len(files[i + 1])
    THEN LET r == files[i + 1][its[i] + 1]
         IN  [iters |-> [its EXCEPT ![i] = @ + 1],
              heap |-> Append(h, <<r.term, i, r.postings>>)]
    ELSE [iters |-> its, heap |-> h]

RECURSIVE PrimeHeap(_, _, _, _)
PrimeHeap(files, its, h, i) ==
    IF i >= Len(files) THEN [iters |-> its, heap |-> h]
    ELSE LET n == PullNext(files, its, h, i)
         IN  PrimeHeap(files, n.iters, n.heap, i + 1)

\* merge_partials up to the while loop.
MergeStart(files) ==
    LET p == PrimeHeap(files, [i \in 0..(Len(files) - 1) |-> 0], <<>>, 0)
    IN  [iters |-> p.iters, heap |-> p.heap, current_term |-> None,
         current_postings |-> <<>>, out |-> <<>>, unique_terms |-> 0]

\* One iteration of `while heap:`.
MergeLoop(files, m) ==
    LET k == HeapMinIndex(m.heap)
        term == m.heap[k][1]
        i == m.heap[k][2]
        postings == m.heap[k][3]
        n == PullNext(files, m.iters, RemoveAt(m.heap, k), i)
        flush == m.current_term # None /\ term # m.current_term
    IN  [iters |-> n.iters,
         heap |-> n.heap,
         current_term |-> term,
         current_postings |->
            IF m.current_term # None /\ term = m.current_term
            THEN merge_postings(m.current_postings, postings)
            ELSE postings,
         out |->
            IF flush
            THEN m.out \o EncodeRecord(m.current_term, Len(m.current_postings),
                                       m.current_postings)
            ELSE m.out,
         unique_terms |-> IF flush THEN m.unique_terms + 1 ELSE m.unique_terms]

\* The flush of the last term, after the loop.
MergeEnd(m) ==
    IF m.current_term # None
    THEN [m EXCEPT !.out = @ \o EncodeRecord(m.current_term,
                                             Len(m.current_postings),
                                             m.current_postings),
                   !.unique_terms = @ + 1]
    ELSE m

RECURSIVE MergeRun(_, _)
MergeRun(files, m) ==
    IF m.heap = <<>> THEN MergeEnd(m) ELSE MergeRun(files, MergeLoop(files, m))

\* merge_partials as a whole: the final state, whose out is the file written.
merge_partials(files) == MergeRun(files, MergeStart(files))

(***************************************************************************)
(* build_lexicon.py and search.py.                                         *)
(***************************************************************************)
\* f.seek(offset); f.readline(): the cells up to and including the newline.
ReadLine(f, offset) ==
    IF offset >= Len(f) THEN <<>>
    ELSE LET ends == {j \in (offset + 1)..Len(f) : f[j].k = "nl"}
             last == IF ends = {} THEN Len(f)
                     ELSE CHOOSE j \in ends : \A e \in ends : j <= e
         IN  SubSeq(f, offset + 1, last)

\* line.strip(): the line without its newline.
Strip(line) ==
    IF line # <<>> /\ line[Len(line)].k = "nl"
    THEN SubSeq(line, 1, Len(line) - 1) ELSE line

\* json.loads of one line of the final index; ok is FALSE where json.loads or
\* obj["term"] raises (the text is not one whole record).
Decode(line) ==
    LET body == Strip(line)
        whole == /\ Len(body) >= 2
                 /\ body[1].k = "term"
                 /\ body[2].k = "df"
                 /\ \A j \in 3..Len(body) : body[j].k = "p"
    IN  IF whole
        THEN [ok |-> TRUE, term |-> body[1].v, df |-> body[2].v[1],
              postings |-> [j \in 1..(Len(body) - 2) |-> body[j + 2].v]]
        ELSE [ok |-> FALSE, term |-> None, df |-> 0, postings |-> <<>>]

\* The offset taken after readline instead of before it.
RecordOffsetAfter(offset, line) == offset + Len(line)

\* The offset build_lexicon records for the line that starts at `offset`.
RecordOffset(offset, line) == offset

RECURSIVE LexiconRows(_, _)
\* The while loop of build_lexicon from file position `offset`.
LexiconRows(f, offset) ==
    LET line == ReadLine(f, offset)
        next == offset + Len(line)
    IN  IF line = <<>> THEN <<>>
        ELSE IF Strip(line) = <<>> THEN LexiconRows(f, next)
        ELSE LET obj == Decode(line)
             IN  <<<<obj.term, RecordOffset(offset, line), obj.df>>>>
                     \o LexiconRows(f, next)

build_lexicon(f) == LexiconRows(f, 0)

\* term -> <<offset, df>>; a later row replaces an earlier one of the same term.
load_lexicon(rows) ==
    [t \in {rows[i][1] : i \in 1..Len(rows)} |->
        LET i == CHOOSE i \in 1..Len(rows) :
                    rows[i][1] = t /\ \A j \in (i + 1)..Len(rows) : rows[j][1] # t
        IN  <<rows[i][2], rows[i][3]>>]

read_postings_at(f, offset) == Decode(ReadLine(f, offset))

RECURSIVE SortPerm(_, _)
\* The order list.sort(key=...) gives the positions in `todo`: by key, ties in
\* their original order (the sort is stable).
SortPerm(keys, todo) ==
    IF todo = {} THEN <<>>
    ELSE LET m == CHOOSE i \in todo :
                    \A j \in todo \ {i} :
                        keys[i] < keys[j] \/ (keys[i] = keys[j] /\ i < j)
         IN  <<m>> \o SortPerm(keys, todo \ {m})

Permute(s, perm) == [i \in 1..Len(perm) |-> s[perm[i]]]

Lens(lists) == [i \in 1..Len(lists) |-> Len(lists[i])]

\* postings_lists.sort(key=len), which sorts the caller's list in place.
SortByLen(lists) == Permute(lists, SortPerm(Lens(lists), 1..Len(lists)))

RECURSIVE KeysOf(_)
\* The key order of {p.doc_id: ... for p in lst}: first insertion.
KeysOf(lst) ==
    IF lst = <<>> THEN <<>>
    ELSE LET front == KeysOf(SubSeq(lst, 1, Len(lst) - 1))
             d == lst[Len(lst)][1]
         IN  IF d \in Range(front) THEN front ELSE Append(front, d)

SelectKeys(keys, S) == SelectSeq(keys, LAMBDA d : d \in S)

RECURSIVE Intersect(_, _, _)
\* The for loop of intersect_docsets over lists[k..]; base is an ordered dict.
Intersect(base, lists, k) ==
    IF k > Len(lists) \/ base.keys = <<>> THEN base
    ELSE LET ids == ByDocId(lists[k])
             keys == SelectKeys(base.keys, DOMAIN ids)
             cur == [keys |-> keys,
                     acc |-> [d \in Range(keys) |-> Append(base.acc[d], ids[d])]]
         IN  Intersect(cur, lists, k + 1)

\* intersect_docsets that seeds from the shortest list and never narrows it.
intersect_docsets_seed_only(sorted_lists) ==
    IF sorted_lists = <<>> THEN [keys |-> <<>>, acc |-> EmptyIndex]
    ELSE LET first == ByDocId(sorted_lists[1])
         IN  [keys |-> KeysOf(sorted_lists[1]),
              acc |-> [d \in DOMAIN first |-> <<first[d]>>]]

\* intersect_docsets on the already sorted lists.
intersect_docsets(sorted_lists) ==
    IF sorted_lists = <<>> THEN [keys |-> <<>>, acc |-> EmptyIndex]
    ELSE LET first == ByDocId(sorted_lists[1])
             base == [keys |-> KeysOf(sorted_lists[1]),
                      acc |-> [d \in DOMAIN first |-> <<first[d]>>]]
         IN  Intersect(base, sorted_lists, 2)

\* round(1000 * math.log(n)) for n = 1..200.
LnMilli ==
    << 0, 693, 1099, 1386, 1609, 1792, 1946, 2079, 2197, 2303,
       2398, 2485, 2565, 2639, 2708, 2773, 2833, 2890, 2944, 2996,
       3045, 3091, 3135, 3178, 3219, 3258, 3296, 3332, 3367, 3401,
       3434, 3466, 3497, 3526, 3555, 3584, 3611, 3638, 3664, 3689,
       3714, 3738, 3761, 3784, 3807, 3829, 3850, 3871, 3892, 3912,
       3932, 3951, 3970, 3989, 4007, 4025, 4043, 4060, 4078, 4094,
       4111, 4127, 4143, 4159, 4174, 4190, 4205, 4220, 4234, 4248,
       4263, 4277, 4290, 4304, 4317, 4331, 4344, 4357, 4369, 4382,
       4394, 4407, 4419, 4431, 4443, 4454, 4466, 4477, 4489, 4500,
       4511, 4522, 4533, 4543, 4554, 4564, 4575, 4585, 4595, 4605,
       4615, 4625, 4635, 4644, 4654, 4663, 4673, 4682, 4691, 4700,
       4710, 4718, 4727, 4736, 4745, 4754, 4762, 4771, 4779, 4787,
       4796, 4804, 4812, 4820, 4828, 4836, 4844, 4852, 4860, 4868,
       4875, 4883, 4890, 4898, 4905, 4913, 4920, 4927, 4934, 4942,
       4949, 4956, 4963, 4970, 4977, 4984, 4990, 4997, 5004, 5011,
       5017, 5024, 5030, 5037, 5043, 5050, 5056, 5063, 5069, 5075,
       5081, 5088, 5094, 5100, 5106, 5112, 5118, 5124, 5130, 5136,
       5142, 5147, 5153, 5159, 5165, 5170, 5176, 5182, 5187, 5193,
       5198, 5204, 5209, 5215, 5220, 5226, 5231, 5236, 5242, 5247,
       5252, 5257, 5263, 5268, 5273, 5278, 5283, 5288, 5293, 5298 >>

Min(a, b) == IF a <= b THEN a ELSE b

RECURSIVE SumScoreInvertedIdf(_, _, _, _)
\* The score loop with the idf ratio upside down: log((df+1)/(N+1)) + 1.
SumScoreInvertedIdf(doc_postings, dfs, N, k) ==
    IF k > Min(Len(doc_postings), Len(dfs)) THEN 0
    ELSE LET p == doc_postings[k]
             idf == LnMilli[dfs[k] + 1] - LnMilli[N + 1] + 1000
             tf10 == 10 * p[2] + 20 * p[3] + 15 * p[4] + 12 * p[5]
             tfw == IF tf10 > 0 THEN 1000 + LnMilli[tf10] - LnMilli[10] ELSE 0
         IN  tfw * idf + SumScoreInvertedIdf(doc_postings, dfs, N, k + 1)

RECURSIVE SumScore(_, _, _, _)
\* The loop of score_doc_tf_idf over zip(doc_postings, dfs), in units of 1e-6:
\* idf and tfw are held in thousandths.
SumScore(doc_postings, dfs, N, k) ==
    IF k > Min(Len(doc_postings), Len(dfs)) THEN 0
    ELSE LET p == doc_postings[k]
             idf == LnMilli[N + 1] - LnMilli[dfs[k] + 1] + 1000
             tf10 == 10 * p[2] + 20 * p[3] + 15 * p[4] + 12 * p[5]
             tfw == IF tf10 > 0 THEN 1000 + LnMilli[tf10] - LnMilli[10] ELSE 0
         IN  tfw * idf + SumScore(doc_postings, dfs, N, k + 1)

score_doc_tf_idf(doc_postings, dfs, N) == SumScore(doc_postings, dfs, N, 1)

\* Python's s[:k].
Slice(s, k) ==
    IF k >= 0 THEN SubSeq(s, 1, Min(k, Len(s)))
    ELSE SubSeq(s, 1, Len(s) + k)

\* The df list search_and scores with: dfs paired with the lists as
\* intersect_docsets left them, then sorted by list length.
DfsSorted(dfs, sorted_lists) ==
    Permute(dfs, SortPerm(Lens(sorted_lists), 1..Len(sorted_lists)))

\* scored.sort(key=score) without reverse=True: ascending.
SortByScoreAsc(scored) ==
    Permute(scored,
            SortPerm([i \in 1..Len(scored) |-> scored[i][2]], 1..Len(scored)))

\* scored.sort(key=score, reverse=True): descending, ties in original order.
SortByScoreDesc(scored) ==
    Permute(scored,
            SortPerm([i \in 1..Len(scored) |-> -scored[i][2]], 1..Len(scored)))

NoHits == [results |-> <<>>, dfs_sorted |-> <<>>,
           doc_to_postings |-> [keys |-> <<>>, acc |-> EmptyIndex],
           posting_terms |-> <<>>]

search_and(terms, f, lexicon, N, k, ranked) ==
    IF terms = <<>> \/ \E i \in 1..Len(terms) : terms[i] \notin DOMAIN lexicon
    THEN NoHits
    ELSE LET postings_lists ==
                 [i \in 1..Len(terms) |->
                     read_postings_at(f, lexicon[terms[i]][1]).postings]
             dfs == [i \in 1..Len(terms) |-> lexicon[terms[i]][2]]
             sorted_lists == SortByLen(postings_lists)
             hits == intersect_docsets(sorted_lists)
             used == DfsSorted(dfs, sorted_lists)
             scored == [i \in 1..Len(hits.keys) |->
                          <<hits.keys[i],
                            score_doc_tf_idf(hits.acc[hits.keys[i]], used, N)>>]
         IN  IF hits.keys = <<>> THEN NoHits
             ELSE [results |->
                      IF ranked THEN Slice(SortByScoreDesc(scored), k)
                      ELSE Slice([i \in 1..Len(hits.keys) |-> <<hits.keys[i], 0>>], k),
                   dfs_sorted |-> IF ranked THEN used ELSE <<>>,
                   doc_to_postings |-> hits,
                   posting_terms |->
                      Permute(terms, SortPerm(Lens(postings_lists), 1..Len(terms)))]

(***************************************************************************)
(* indexer.py: main.                                                       *)
(***************************************************************************)
Seqs(S, n) == UNION {[1..k -> S] : k \in 0..n}

NoFiles == [n \in {} |-> <<>>]

\* flush_partial without its `if not partial_index: return`.
flush_partial_always(index, count, dir) ==
    [partial_index |-> EmptyIndex,
     partial_count |-> count + 1,
     partial_dir |-> [n \in DOMAIN dir \cup {count} |->
                         IF n = count THEN dump_partial_index(index) ELSE dir[n]]]

\* flush_partial on (partial_index, partial_count, partial_dir): an empty
\* accumulator writes nothing; otherwise partial_<partial_count> is written
\* (replacing a file of that name) and the accumulator is reset.
flush_partial(index, count, dir) ==
    IF DOMAIN index = {}
    THEN [partial_index |-> index, partial_count |-> count, partial_dir |-> dir]
    ELSE [partial_index |-> EmptyIndex,
          partial_count |-> count + 1,
          partial_dir |-> [n \in DOMAIN dir \cup {count} |->
                              IF n = count THEN dump_partial_index(index)
                              ELSE dir[n]]]

RECURSIVE PrevRun(_, _, _, _)
\* The partials directory an earlier run of the indexer over `docs`, with
\* --flush-docs 1, leaves behind: one file per document that has terms.
PrevRun(docs, k, count, dir) ==
    IF k > Len(docs) THEN dir
    ELSE LET f == flush_partial(
                      AppendPostings(EmptyIndex,
                                     build_partial_index_for_doc(k - 1, docs[k])),
                      count, dir)
         IN  PrevRun(docs, k + 1, f.partial_count, f.partial_dir)

\* ensure_dir(partial_dir) keeps whatever the directory already holds.
StaleDirs == {PrevRun(docs, 1, 0, NoFiles) : docs \in Seqs(DocPool, MaxPrevDocs)}

\* The partial files merge_partials reads, in the order of partial_paths.
Files == [i \in 1..Len(partial_paths) |-> partial_dir[partial_paths[i]]]

NoSearch ==
    /\ lexicon_file = <<>>
    /\ query = <<>>
    /\ topk = 0
    /\ rank = TRUE
    /\ dfs_sorted = <<>>
    /\ doc_to_postings = [keys |-> <<>>, acc |-> EmptyIndex]
    /\ posting_terms = <<>>
    /\ results = <<>>

InitCommon ==
    /\ pc = "start"
    /\ dirs_made = FALSE
    /\ corpus = <<>>
    /\ partial_index = EmptyIndex
    /\ doc_count = 0
    /\ partial_count = 0
    /\ partial_paths = <<>>
    /\ iters = <<>>
    /\ heap = <<>>
    /\ current_term = None
    /\ current_postings = <<>>
    /\ out = <<>>
    /\ unique_terms = 0
    /\ NoSearch

\* Any --flush-docs the parser accepts (type=int), any leftover partials.
Init ==
    /\ flush_docs \in (-MaxFlush)..MaxFlush
    /\ partial_dir \in StaleDirs
    /\ InitCommon

\* A fresh output directory and the flush threshold MaxFlush.
InitSearch ==
    /\ flush_docs = MaxFlush
    /\ partial_dir = NoFiles
    /\ InitCommon

mergeVars == <<partial_paths, iters, heap, current_term, current_postings, out,
               unique_terms>>
searchVars == <<lexicon_file, query, topk, rank, dfs_sorted, doc_to_postings,
                posting_terms, results>>

\* ensure_dir(args.out); ensure_dir(partial_dir); the loop's variables are set.
MakeDirs ==
    /\ pc = "start"
    /\ dirs_made' = TRUE
    /\ pc' = "index"
    /\ UNCHANGED <<flush_docs, partial_dir, corpus, partial_index, doc_count,
                   partial_count, mergeVars, searchVars>>

\* One iteration of `for _, url, content in iter_json_docs(args.corpus)`.
\* doc_count % 0 raises ZeroDivisionError after the document was accumulated.
ProcessDoc ==
    /\ pc = "index"
    /\ doc_count < MaxDocs
    /\ \E d \in DocPool :
        LET doc_id == doc_count
            per_doc == build_partial_index_for_doc(doc_id, d)
            index1 == AppendPostings(partial_index, per_doc)
            f == flush_partial(index1, partial_count, partial_dir)
        IN  /\ corpus' = Append(corpus, d)
            /\ doc_count' = doc_count + 1
            /\ IF flush_docs = 0
               THEN /\ pc' = "crashed"
                    /\ partial_index' = index1
                    /\ UNCHANGED <<partial_count, partial_dir>>
               ELSE /\ pc' = "index"
                    /\ IF PyMod(doc_count + 1, flush_docs) = 0
                       THEN /\ partial_index' = f.partial_index
                            /\ partial_count' = f.partial_count
                            /\ partial_dir' = f.partial_dir
                       ELSE /\ partial_index' = index1
                            /\ UNCHANGED <<partial_count, partial_dir>>
    /\ UNCHANGED <<flush_docs, dirs_made, mergeVars, searchVars>>

\* The final flush, and the listing of the partials directory.
FinalFlush ==
    /\ pc = "index"
    /\ LET f == flush_partial(partial_index, partial_count, partial_dir)
       IN  /\ partial_index' = f.partial_index
           /\ partial_count' = f.partial_count
           /\ partial_dir' = f.partial_dir
           /\ partial_paths' = SortedInts(DOMAIN f.partial_dir)
    /\ pc' = "prime"
    /\ UNCHANGED <<flush_docs, dirs_made, corpus, doc_count, iters, heap,
                   current_term, current_postings, out, unique_terms, searchVars>>

MergeState ==
    [iters |-> iters, heap |-> heap, current_term |-> current_term,
     current_postings |-> current_postings, out |-> out,
     unique_terms |-> unique_terms]

SetMergeState(m) ==
    /\ iters' = m.iters
    /\ heap' = m.heap
    /\ current_term' = m.current_term
    /\ current_postings' = m.current_postings
    /\ out' = m.out
    /\ unique_terms' = m.unique_terms

indexVars == <<flush_docs, dirs_made, partial_dir, corpus, partial_index,
               doc_count, partial_count, partial_paths>>

\* merge_partials: the iterators are opened and the heap is primed.
MergePrime ==
    /\ pc = "prime"
    /\ SetMergeState(MergeStart(Files))
    /\ pc' = "merge"
    /\ UNCHANGED <<indexVars, searchVars>>

\* merge_partials: one iteration of the while loop.
MergeStep ==
    /\ pc = "merge"
    /\ heap # <<>>
    /\ SetMergeState(MergeLoop(Files, MergeState))
    /\ pc' = "merge"
    /\ UNCHANGED <<indexVars, searchVars>>

\* merge_partials: the last term is flushed and the function returns.
MergeFinish ==
    /\ pc = "merge"
    /\ heap = <<>>
    /\ SetMergeState(MergeEnd(MergeState))
    /\ pc' = "merged"
    /\ UNCHANGED <<indexVars, searchVars>>

\* build_lexicon.py over the finished index.
BuildLexicon ==
    /\ pc = "merged"
    /\ lexicon_file' = build_lexicon(out)
    /\ pc' = "ready"
    /\ UNCHANGED <<indexVars, iters, heap, current_term, current_postings, out,
                   unique_terms, query, topk, rank, dfs_sorted, doc_to_postings,
                   posting_terms, results>>

\* One call of search_and, with N the doc_count of the document map.
Search ==
    /\ pc = "ready"
    /\ \E q \in Seqs(Vocab, MaxQueryLen) \ {<<>>}, k \in (-1)..MaxTopK,
          r \in BOOLEAN :
        LET s == search_and(q, out, load_lexicon(lexicon_file), doc_count, k, r)
        IN  /\ query' = q
            /\ topk' = k
            /\ rank' = r
            /\ results' = s.results
            /\ dfs_sorted' = s.dfs_sorted
            /\ doc_to_postings' = s.doc_to_postings
            /\ posting_terms' = s.posting_terms
    /\ pc' = "searched"
    /\ UNCHANGED <<indexVars, iters, heap, current_term, current_postings, out,
                   unique_terms, lexicon_file>>

NextIndexer ==
    \/ MakeDirs
    \/ ProcessDoc
    \/ FinalFlush
    \/ MergePrime
    \/ MergeStep
    \/ MergeFinish

Next ==
    \/ NextIndexer
    \/ BuildLexicon
    \/ Search

\* The indexer alone, from any configuration and any partials directory.
Spec == Init /\ [][NextIndexer]_vars

\* The whole pipeline from a fresh directory: index, merge, lexicon, queries.
SpecSearch == InitSearch /\ [][Next]_vars

(***************************************************************************)
(* What the files hold, for the properties below.                          *)
(***************************************************************************)
RECURSIVE RecordsFrom(_, _)
\* The records of a final index file, line by line from `offset`.
RecordsFrom(f, offset) ==
    LET line == ReadLine(f, offset)
    IN  IF line = <<>> THEN <<>>
        ELSE <<Decode(line)>> \o RecordsFrom(f, offset + Len(line))

Records(f) == RecordsFrom(f, 0)

TermsOf(recs) == [i \in 1..Len(recs) |-> recs[i].term]

Increasing(ts) == \A i \in 1..(Len(ts) - 1) : LexLess(ts[i], ts[i + 1])

Distinct(s) == \A i, j \in 1..Len(s) : i # j => s[i] # s[j]

\* The postings a partial file holds for a term (<<>> when it has none).
PostingsIn(file, t) ==
    IF \E i \in 1..Len(file) : file[i].term = t
    THEN file[CHOOSE i \in 1..Len(file) : file[i].term = t].postings
    ELSE <<>>

SourcesOf(t) == {i \in 1..Len(Files) : PostingsIn(Files[i], t) # <<>>}

InputTerms == UNION {Range(TermsOf(Files[i])) : i \in 1..Len(Files)}

RECURSIVE Accumulate(_, _, _, _)
\* The accumulator after documents lo..hi of docs, numbered from 0.
Accumulate(docs, lo, hi, index) ==
    IF lo > hi THEN index
    ELSE Accumulate(docs, lo + 1, hi,
                    AppendPostings(index,
                                   build_partial_index_for_doc(lo - 1, docs[lo])))

\* One partial index over the whole document sequence.
Whole(docs) == dump_partial_index(Accumulate(docs, 1, Len(docs), EmptyIndex))

RECURSIVE SplitFiles(_, _, _)
\* The partial files of the batches that the cut points `cuts` split docs
\* into, from document lo on; a batch without terms leaves no file.
SplitFiles(docs, cuts, lo) ==
    IF lo > Len(docs) THEN <<>>
    ELSE LET ends == {c \in cuts \cup {Len(docs)} : c >= lo}
             hi == CHOOSE c \in ends : \A e \in ends : c <= e
             index == Accumulate(docs, lo, hi, EmptyIndex)
             rest == SplitFiles(docs, cuts, hi + 1)
         IN  IF DOMAIN index = {} THEN rest
             ELSE <<dump_partial_index(index)>> \o rest

TermPostings(recs) ==
    [i \in 1..Len(recs) |-> [term |-> recs[i].term, postings |-> recs[i].postings]]

OwnFilesOnly == Len(partial_paths) = partial_count

\* C1: merging the per-batch partial indexes of any split of the document
\* sequence into contiguous batches gives, term by term, the posting lists of
\* one partial index built over the whole sequence: for the batches the run
\* itself flushed, and for every other split of the same documents.
C1_MergeEqualsWhole ==
    (pc = "merged" /\ OwnFilesOnly) =>
        /\ TermPostings(Records(out)) = Whole(corpus)
        /\ \A cuts \in SUBSET (1..(Len(corpus) - 1)) :
              TermPostings(Records(merge_partials(SplitFiles(corpus, cuts, 1)).out))
                  = Whole(corpus)

C1_Witness ==
    /\ pc = "merged"
    /\ OwnFilesOnly
    /\ partial_count >= 2
    /\ \E t \in Vocab : Cardinality(SourcesOf(t)) >= 2

\* C4: the terms written to the final index are strictly increasing at every
\* point of the merge, and on completion they are exactly the distinct terms
\* of the input files, each once.
C4_TermsIncreasing ==
    LET ts == TermsOf(Records(out))
    IN  /\ Increasing(ts)
        /\ pc = "merged" =>
              /\ Range(ts) = InputTerms
              /\ Len(ts) = Cardinality(InputTerms)
              /\ unique_terms = Cardinality(InputTerms)

C4_Witness ==
    /\ pc = "merge"
    /\ Len(Files) >= 2
    /\ Len(Records(out)) >= 2
    /\ heap # <<>>

\* C5: in every record written to the final index, df is the number of
\* distinct doc_ids among the record's postings.
C5_DfIsDistinctDocs ==
    LET recs == Records(out)
    IN  \A i \in 1..Len(recs) :
            recs[i].ok /\ recs[i].df = Cardinality(DocIds(recs[i].postings))

C5_Witness ==
    /\ pc = "merged"
    /\ \E t \in InputTerms : Cardinality(SourcesOf(t)) >= 2
    /\ \E t \in InputTerms : Cardinality(SourcesOf(t)) = 1

FileDocIds(file) == UNION {DocIds(file[i].postings) : i \in 1..Len(file)}

CeilDiv(a, b) == (a + b - 1) \div b

AllDocsHaveTerms == \A i \in 1..Len(corpus) : DocTerms(corpus[i]) # {}

\* C7: with a flush threshold F >= 1 and documents that each have a term, a
\* partial file is written after every F-th document and one more for a
\* remainder: floor(D/F) files while documents are read, ceil(D/F) after the
\* final flush, the k-th holding exactly documents k*F .. min((k+1)*F, D)-1,
\* and the final flush of an empty accumulator adds no file.
C7_FlushBoundary ==
    (flush_docs >= 1 /\ AllDocsHaveTerms) =>
        /\ pc = "index" =>
              /\ partial_count = doc_count \div flush_docs
              /\ UNION {DocIds(partial_index[t]) : t \in DOMAIN partial_index}
                    = (partial_count * flush_docs)..(doc_count - 1)
        /\ pc \in {"prime", "merge", "merged"} =>
              /\ partial_count = CeilDiv(doc_count, flush_docs)
              /\ DOMAIN partial_index = {}
        /\ \A k \in 0..(partial_count - 1) :
              /\ k \in DOMAIN partial_dir
              /\ FileDocIds(partial_dir[k])
                    = (k * flush_docs)..(Min((k + 1) * flush_docs, doc_count) - 1)

C7_Witness ==
    /\ pc = "prime"
    /\ AllDocsHaveTerms
    /\ flush_docs = MaxFlush
    /\ doc_count = MaxFlush + 1
    /\ partial_count = 2
    /\ FileDocIds(partial_dir[1]) = {MaxFlush}

\* C8: a flush threshold <= 0 is rejected before any directory is created,
\* any document is read or any partial file is written.
C8_RejectedBeforeIO ==
    flush_docs <= 0 =>
        /\ ~dirs_made
        /\ corpus = <<>>
        /\ doc_count = 0
        /\ partial_count = 0

RECURSIVE FieldSum(_, _, _, _)
\* Field j of the postings of (term t, document d), summed over Files[k..].
FieldSum(t, d, j, k) ==
    IF k > Len(Files) THEN 0
    ELSE LET ps == PostingsIn(Files[k], t)
             here == IF d \in DocIds(ps) THEN ByDocId(ps)[d][j] ELSE 0
         IN  here + FieldSum(t, d, j, k + 1)

OnePostingPerDoc(postings) == Cardinality(DocIds(postings)) = Len(postings)

OnePostingPerPair(recs) ==
    /\ Distinct(TermsOf(recs))
    /\ \A i \in 1..Len(recs) : OnePostingPerDoc(recs[i].postings)

\* C9: every snapshot - the accumulator, every partial file, the final index
\* under construction and finished - holds one posting per (term, doc_id);
\* a doc_id that several merged files hold for a term has, in the merged
\* record, the single posting whose four counts are the field-wise sums.
C9_OnePostingPerPair ==
    /\ \A t \in DOMAIN partial_index : OnePostingPerDoc(partial_index[t])
    /\ \A n \in DOMAIN partial_dir : OnePostingPerPair(partial_dir[n])
    /\ OnePostingPerPair(Records(out))
    /\ OnePostingPerDoc(current_postings)
    /\ pc = "merged" =>
          \A r \in Range(Records(out)) :
              /\ DocIds(r.postings)
                    = UNION {DocIds(PostingsIn(Files[k], r.term)) :
                                k \in 1..Len(Files)}
              /\ \A n \in 1..Len(r.postings) : \A j \in 2..5 :
                    r.postings[n][j] = FieldSum(r.term, r.postings[n][1], j, 1)

C9_Witness ==
    /\ pc = "merged"
    /\ \E t \in InputTerms : \E k1, k2 \in SourcesOf(t) :
          /\ k1 # k2
          /\ DocIds(PostingsIn(Files[k1], t)) \cap DocIds(PostingsIn(Files[k2], t))
                # {}

ResultIds == {results[i][1] : i \in 1..Len(results)}

\* The doc_ids that have a posting under every term of q in the final index.
IndexMatches(q) ==
    LET recs == Records(out)
    IN  {d \in UNION {DocIds(recs[i].postings) : i \in 1..Len(recs)} :
            \A n \in 1..Len(q) :
                \E i \in 1..Len(recs) :
                    recs[i].term = q[n] /\ d \in DocIds(recs[i].postings)}

\* The documents of the corpus that contain every term of q in some zone.
CorpusMatches(q) ==
    {d \in 0..(doc_count - 1) : \A n \in 1..Len(q) : q[n] \in DocTerms(corpus[d + 1])}

\* C2: with top-K at least the number of matching documents, ranked or not,
\* search_and returns each doc_id that has a posting for every query term
\* exactly once and no other doc_id; these are the documents of the corpus
\* that contain every query term; a query with a term that is not in the
\* lexicon returns nothing, wherever the term stands in the query.
C2_AndSemantics ==
    pc = "searched" =>
        /\ LET matches == IndexMatches(query)
           IN  /\ topk >= Cardinality(matches) =>
                     ResultIds = matches /\ Len(results) = Cardinality(matches)
               /\ matches = CorpusMatches(query)
        /\ (\E n \in 1..Len(query) :
                query[n] \notin DOMAIN load_lexicon(lexicon_file))
              => results = <<>>

C2_Witness ==
    /\ pc = "searched"
    /\ Len(query) = 2
    /\ query[1] # query[2]
    /\ topk >= Cardinality(IndexMatches(query))
    /\ results # <<>>
    /\ Len(results) < doc_count

\* The record of the final index that holds term t.
RecordOf(t) ==
    LET recs == Records(out)
    IN  recs[CHOOSE i \in 1..Len(recs) : recs[i].term = t]

\* C3: in a ranked search, for every surviving document and every position i,
\* the posting at position i of its accumulated list is the posting of the
\* query term posting_terms[i], and the df used at position i is that term's.
C3_DfAlignedWithPostings ==
    (pc = "searched" /\ rank /\ doc_to_postings.keys # <<>>) =>
        \A i \in 1..Len(dfs_sorted) :
            /\ \A d \in Range(doc_to_postings.keys) :
                  doc_to_postings.acc[d][i]
                      \in Range(RecordOf(posting_terms[i]).postings)
            /\ dfs_sorted[i] = load_lexicon(lexicon_file)[posting_terms[i]][2]

\* C6: every lexicon row round-trips - the line at its offset is exactly one
\* record, with the row's term and the row's df - and the lexicon has one row
\* for each record the merge wrote, no two rows for one term.
C6_LexiconRoundTrip ==
    pc \in {"ready", "searched"} =>
        /\ \A i \in 1..Len(lexicon_file) :
              LET row == lexicon_file[i]
                  r == read_postings_at(out, row[2])
              IN  /\ r.ok
                  /\ r.term = row[1]
                  /\ r.df = row[3]
                  /\ ReadLine(out, row[2]) = EncodeRecord(r.term, r.df, r.postings)
                  /\ load_lexicon(lexicon_file)[row[1]] = <<row[2], row[3]>>
        /\ Len(lexicon_file) = unique_terms
        /\ Distinct([i \in 1..Len(lexicon_file) |-> lexicon_file[i][1]])
        /\ {lexicon_file[i][1] : i \in 1..Len(lexicon_file)} = InputTerms

C6_Witness ==
    /\ pc = "ready"
    /\ Len(lexicon_file) = 3
    /\ lexicon_file[3][2] > lexicon_file[2][2] + 3

\* The score search_and gave surviving document d.
ScoreOf(d) == score_doc_tf_idf(doc_to_postings.acc[d], dfs_sorted, doc_count)

\* C10: for top-K >= 0 a ranked search returns min(K, survivors) pairs with
\* distinct doc_ids, each a survivor with its score, in non-increasing score
\* order, and no survivor left out scores higher than a returned one.
C10_TopKByScore ==
    (pc = "searched" /\ rank /\ topk >= 0) =>
        /\ Len(results) = Min(topk, Len(doc_to_postings.keys))
        /\ Distinct([i \in 1..Len(results) |-> results[i][1]])
        /\ \A i \in 1..Len(results) :
              /\ results[i][1] \in Range(doc_to_postings.keys)
              /\ results[i][2] = ScoreOf(results[i][1])
        /\ \A i \in 1..(Len(results) - 1) : results[i][2] >= results[i + 1][2]
        /\ \A d \in Range(doc_to_postings.keys) \ ResultIds :
              \A i \in 1..Len(results) : ScoreOf(d) <= results[i][2]

C10_Witness ==
    /\ pc = "searched"
    /\ rank
    /\ topk = 1
    /\ Len(doc_to_postings.keys) >= 2
    /\ Len(results) = 1
    /\ \E d \in Range(doc_to_postings.keys) : ScoreOf(d) < results[1][2]
    /\ results[1][1] # doc_to_postings.keys[1]

\* doc_postings with the title_tf of the posting at position i raised by n.
RaiseTitle(doc_postings, i, n) ==
    [doc_postings EXCEPT ![i] = [@ EXCEPT ![3] = @ + n]]

\* C11: for the postings of every document a ranked search scores, with N the
\* document count and the dfs of the query terms, the df at the raised position
\* being any value <= N: raising the title_tf of the posting of one query
\* term, all else fixed, does not lower score_doc_tf_idf.
C11_TitleMonotone ==
    (pc = "searched" /\ rank) =>
        LET lex == load_lexicon(lexicon_file)
            base == [j \in 1..Len(posting_terms) |-> lex[posting_terms[j]][2]]
        IN  \A d \in Range(doc_to_postings.keys) :
                \A i \in 1..Len(base) : \A df \in 0..doc_count :
                    \A n \in 1..MaxBoost :
                        LET ps == doc_to_postings.acc[d]
                            dfs == [base EXCEPT ![i] = df]
                        IN  score_doc_tf_idf(RaiseTitle(ps, i, n), dfs, doc_count)
                                >= score_doc_tf_idf(ps, dfs, doc_count)

C11_Witness ==
    /\ pc = "searched"
    /\ rank
    /\ Len(query) = 2
    /\ \E d \in Range(doc_to_postings.keys) :
          score_doc_tf_idf(RaiseTitle(doc_to_postings.acc[d], 2, 1),
                           dfs_sorted, doc_count)
              > ScoreOf(d)

HeapSources(h) == [k \in 1..Len(h) |-> h[k][2]]

Exhausted(its, h, i) ==
    i \notin Range(HeapSources(h)) /\ its[i] = Len(Files[i + 1])

\* What the merge holds in memory: per source at most the one record its
\* iterator yielded last, and the one term under accumulation, which is not
\* past any pending term and, until its own record is written after the loop,
\* past every term written.
C12_State ==
    pc \in {"merge", "merged"} =>
        /\ Len(heap) <= Len(Files)
        /\ Distinct(HeapSources(heap))
        /\ \A k \in 1..Len(heap) :
              LET i == heap[k][2]
              IN  /\ iters[i] >= 1
                  /\ heap[k] = <<Files[i + 1][iters[i]].term, i,
                                 Files[i + 1][iters[i]].postings>>
        /\ \A i \in 0..(Len(Files) - 1) :
              i \notin Range(HeapSources(heap)) => iters[i] = Len(Files[i + 1])
        /\ \A k \in 1..Len(heap) : ~LexLess(heap[k][1], current_term)
        /\ pc = "merge" =>
              \A t \in Range(TermsOf(Records(out))) : LexLess(t, current_term)

\* One loop iteration reads from no source but the one whose record it popped,
\* and one record at most; an exhausted source stays out of the heap.
C12_Step ==
    (pc = "merge" /\ pc' \in {"merge", "merged"}) =>
        \A i \in 0..(Len(Files) - 1) :
            /\ iters'[i] # iters[i] =>
                  /\ heap # <<>>
                  /\ heap[HeapMinIndex(heap)][2] = i
                  /\ iters'[i] = iters[i] + 1
            /\ Exhausted(iters, heap, i) => Exhausted(iters', heap', i)

\* C12: at every step of merge_partials the heap holds at most one pending
\* record per source file (at most N entries, distinct source indexes), plus
\* one term under accumulation; a source's next record is pulled only after
\* its current record was popped, and an exhausted source is never re-inserted.
C12_OnePendingPerSource == [](C12_State) /\ [][C12_Step]_vars

C12_Witness ==
    /\ pc = "merge"
    /\ Len(Files) >= 2
    /\ current_term # None
    /\ heap # <<>>
    /\ \E i \in 0..(Len(Files) - 1) : Exhausted(iters, heap, i)
    /\ \E k \in 1..Len(heap) : iters[heap[k][2]] >= 2

====
